---------------------------- MODULE Spec2Model ----------------------------
(***************************************************************************)
(* The submission client of the Catfish prototype                          *)
(* (catfish_simple/frontend/src/App.jsx and api.js) as a state machine.    *)
(*                                                                         *)
(* The React state of App is the state of the machine.  Every event        *)
(* handler and every continuation of an awaited promise is one action:     *)
(* JavaScript runs each of them to completion, and React commits the       *)
(* state they set (and runs the effects that depend on it) before the      *)
(* next event is delivered.  The network is a bag of requests in flight;   *)
(* the backend (not part of the client sources) answers them.              *)
(***************************************************************************)
EXTENDS Naturals, Sequences, FiniteSets, Bags, TLC

VARIABLES
    activeTab,          \* useState("dashboard")
    files,              \* useState([]): the selected files
    previews,           \* useState([]): the object URLs shown as previews
    profileUrl,         \* useState("")
    profileBio,         \* useState("")
    conversationText,   \* useState("")
    notes,              \* useState("")
    uploads,            \* useState([]): the list shown in the Recent view
    error,              \* useState(null)
    isSubmitting,       \* useState(false)
    net,                \* bag of fetch() calls whose promise is not yet consumed
    store,              \* the backend's persisted records (their ids), in insertion order
    urlCount,           \* number of object URLs created so far (URL ids are 1..urlCount)
    liveUrls,           \* object URLs created and not revoked
    revokedUrls,        \* object URLs revoked at least once
    doubleRevoke,       \* TRUE once a URL that is not live has been revoked
    picked,             \* history: the last FileList handed to handleFileChange
    lastListed          \* history: the list the last successful re-fetch of a
                        \* handleSubmit returned

vars == <<activeTab, files, previews, profileUrl, profileBio, conversationText,
          notes, uploads, error, isSubmitting, net, store, urlCount, liveUrls,
          revokedUrls, doubleRevoke, picked, lastListed>>

formVars == <<profileUrl, profileBio, conversationText, notes>>
urlVars == <<previews, urlCount, liveUrls, revokedUrls, doubleRevoke>>

-----------------------------------------------------------------------------
(* Bounds of the model *)

\* most entries of a FileList the user hands to the file input
MaxPick == 6
\* the same for the user who also types into the text fields
FormMaxPick == 2
\* most object URLs that user has created
FormMaxUrls == 2
\* most object URLs created in one run (caps the URL id counter)
MaxUrls == 6

(* Program constants *)

\* selected.slice(0, 5)
MaxFiles == 5

NULL == "null"
tabs == {"dashboard", "recent", "chat", "profile"}

ValidationMessage == "Add at least one image"
UploadFallback == "Upload failed"
LoadFailed == "Failed to load uploads"
\* the message of the TypeError a rejected fetch() carries (browser-defined)
TransportMessage == "Failed to fetch"
\* what the user can have typed into a text field
TextValues == {"", "a"}
\* the bodies a non-2xx answer to the create request can carry
ErrorBodies == {"", "Internal Server Error"}

Range(s) == {s[i] : i \in DOMAIN s}
Min(a, b) == IF a <= b THEN a ELSE b

\* FileLists the browser can hand over: n files, the i-th named n + 1 - i
\* (so that the order of a list and the end it is cut at both show)
FileList(n) == [i \in 1..n |-> n + 1 - i]
\* event.target.files is a FileList (of at most most entries) or null
FileInputs(most) ==
    {[isNull |-> FALSE, list |-> FileList(n)] : n \in 0..most}
        \cup {[isNull |-> TRUE, list |-> <<>>]}


-----------------------------------------------------------------------------
(* The network: api.js *)

\* The multipart body of a create request.  A text part is appended only
\* when its value is not empty: "" stands for a part that is absent.
FormData(fs, pu, nt, pb, ct) ==
    [files |-> fs, profile_url |-> pu, notes |-> nt, profile_bio |-> pb,
     conversation_text |-> ct]
NoBody == FormData(<<>>, "", "", "", "")

\* One fetch() call.  status is "pending" until the backend answered or the
\* transport gave up; payload is the body sent (kept until the request is
\* answered), data the JSON list of a 2xx answer to GET, text the body of a
\* non-2xx answer.
Request(owner, kind, payload) ==
    [owner |-> owner, kind |-> kind, status |-> "pending",
     payload |-> payload, data |-> <<>>, text |-> ""]

InFlight == BagToSet(net)
Issue(n, r) == n (+) SetToBag({r})
Consume(n, r) == n (-) SetToBag({r})
Settle(n, r, answer) == Issue(Consume(n, r), [answer EXCEPT !.payload = NoBody])

\* fetchUploads(): fetch(`${API_BASE}/api/uploads`)
fetchUploads(n, owner) == Issue(n, Request(owner, "list", NoBody))

\* uploadImage(files, profileUrl, notes, profileBio, conversationText): the
\* form data is built, then fetch(..., {method: "POST", body: formData})
uploadImage(n, owner, fs, pu, nt, pb, ct) ==
    Issue(n, Request(owner, "create", FormData(fs, pu, nt, pb, ct)))

\* fetchUploads: what the rejected promise carries as err.message
fetchUploadsMessage(r) ==
    IF r.status = "neterr" THEN TransportMessage ELSE LoadFailed

uploadImageMessage_AlwaysFallback(r) == UploadFallback

\* uploadImage: what the rejected promise carries as err.message:
\* throw new Error(text || "Upload failed"); a rejected fetch() throws its own
uploadImageMessage(r) ==
    IF r.status = "neterr" THEN TransportMessage
    ELSE IF r.text # "" THEN r.text ELSE UploadFallback

-----------------------------------------------------------------------------
(* The backend and the transport (the environment of the client) *)

\* GET /api/uploads: every persisted record, or a non-2xx answer
ServerList(r) ==
    /\ r \in InFlight /\ r.kind = "list" /\ r.status = "pending"
    /\ \/ net' = Settle(net, r, [r EXCEPT !.status = "ok", !.data = store])
       \/ net' = Settle(net, r, [r EXCEPT !.status = "error"])
    /\ UNCHANGED <<activeTab, files, formVars, uploads, error, isSubmitting,
                   store, urlVars, picked, lastListed>>

\* the records the store creates for k accepted files: it assigns the ids
NewRecords(have, k) == [i \in 1..k |-> have + i]

\* POST /api/uploads: one record per accepted file, or a non-2xx answer with
\* a text body; a rejected create leaves no record
ServerCreate(r) ==
    /\ r \in InFlight /\ r.kind = "create" /\ r.status = "pending"
    /\ \/ /\ Len(r.payload.files) > 0
          /\ net' = Settle(net, r, [r EXCEPT !.status = "ok"])
          /\ store' = store \o NewRecords(Len(store), Len(r.payload.files))
       \/ /\ \E body \in ErrorBodies :
                net' = Settle(net, r, [r EXCEPT !.status = "error", !.text = body])
          /\ store' = store
    /\ UNCHANGED <<activeTab, files, formVars, uploads, error, isSubmitting,
                   urlVars, picked, lastListed>>

\* the request does not reach the backend: fetch() rejects
NetworkFail(r) ==
    /\ r \in InFlight /\ r.status = "pending"
    /\ net' = Settle(net, r, [r EXCEPT !.status = "neterr"])
    /\ UNCHANGED <<activeTab, files, formVars, uploads, error, isSubmitting,
                   store, urlVars, picked, lastListed>>

-----------------------------------------------------------------------------
(* The preview effect: useEffect(..., [files]) *)

revokePreviews_Never(live) == live

\* the cleanup of the effect: urls.forEach((url) => URL.revokeObjectURL(url))
revokePreviews(live) == live \ Range(previews)

\* files.map((file) => URL.createObjectURL(file)): one fresh URL per file
createPreviews(fs) == [i \in 1..Len(fs) |-> urlCount + i]

\* React runs the cleanup of the previous run, then the effect for the new
\* files, whenever setFiles stored a new array.
previewEffect(fs) ==
    /\ doubleRevoke' = (doubleRevoke \/ ~(Range(previews) \subseteq liveUrls))
    /\ revokedUrls' = revokedUrls \cup (liveUrls \ revokePreviews(liveUrls))
    /\ liveUrls' = revokePreviews(liveUrls) \cup Range(createPreviews(fs))
    /\ previews' = createPreviews(fs)
    /\ urlCount' = urlCount + Len(fs)

-----------------------------------------------------------------------------
(* The handlers of App *)

sliceSelected_NoCap(selected) == selected

\* selected.slice(0, 5)
sliceSelected(selected) == SubSeq(selected, 1, Min(MaxFiles, Len(selected)))

\* Array.from(event.target.files ?? [])
selectedOf(input) == IF input.isNull THEN <<>> ELSE input.list

\* the file input is part of the form, rendered on the dashboard tab only
handleFileChange(input) ==
    /\ activeTab = "dashboard"
    /\ files' = sliceSelected(selectedOf(input))
    /\ previewEffect(files')
    /\ picked' = selectedOf(input)
    /\ UNCHANGED <<activeTab, formVars, uploads, error, isSubmitting, net,
                   store, lastListed>>

setProfileUrl(v) ==
    /\ activeTab = "dashboard"
    /\ profileUrl' = v
    /\ UNCHANGED <<activeTab, files, profileBio, conversationText, notes, uploads,
                   error, isSubmitting, net, store, urlVars, picked, lastListed>>

setProfileBio(v) ==
    /\ activeTab = "dashboard"
    /\ profileBio' = v
    /\ UNCHANGED <<activeTab, files, profileUrl, conversationText, notes, uploads,
                   error, isSubmitting, net, store, urlVars, picked, lastListed>>

setConversationText(v) ==
    /\ activeTab = "dashboard"
    /\ conversationText' = v
    /\ UNCHANGED <<activeTab, files, profileUrl, profileBio, notes, uploads,
                   error, isSubmitting, net, store, urlVars, picked, lastListed>>

setNotes(v) ==
    /\ activeTab = "dashboard"
    /\ notes' = v
    /\ UNCHANGED <<activeTab, files, profileUrl, profileBio, conversationText,
                   uploads, error, isSubmitting, net, store, urlVars, picked,
                   lastListed>>

\* BottomNav: onClick={() => setActiveTab(tab.id)}
setActiveTab(t) ==
    /\ activeTab' = t
    /\ UNCHANGED <<files, formVars, uploads, error, isSubmitting, net, store,
                   urlVars, picked, lastListed>>

submitDisabled_Never == FALSE

\* <button type="submit" disabled={isSubmitting}>
submitDisabled == isSubmitting

noFilesSelected_Never == FALSE

\* if (files.length === 0)
noFilesSelected == Len(files) = 0

NoList == [valid |-> FALSE, list |-> <<>>]
Listed(list) == [valid |-> TRUE, list |-> list]

\* handleSubmit up to its first await.  The form is rendered on the
\* dashboard tab only, and a disabled submit button submits nothing.
handleSubmit ==
    /\ activeTab = "dashboard"
    /\ ~submitDisabled
    /\ IF noFilesSelected
       THEN /\ error' = ValidationMessage
            /\ UNCHANGED <<isSubmitting, net>>
       ELSE /\ isSubmitting' = TRUE
            /\ error' = NULL
            /\ net' = uploadImage(net, "submit", files, profileUrl, notes,
                                  profileBio, conversationText)
    /\ UNCHANGED <<activeTab, files, formVars, uploads, store, urlVars, picked,
                   lastListed>>

submittingAfterFailure_Stuck == isSubmitting

\* finally { setSubmitting(false) }
submittingAfterFailure == FALSE

\* handleSubmit after `await uploadImage(...)`: the try block up to
\* `await refresh()` when the promise resolved, catch and finally otherwise.
\* event.target.reset() resets the DOM form, which holds none of this state.
uploadSettled(r) ==
    /\ r \in InFlight /\ r.kind = "create" /\ r.status # "pending"
    /\ IF r.status = "ok"
       THEN /\ files' = <<>>
            /\ previewEffect(files')
            /\ profileUrl' = ""
            /\ profileBio' = ""
            /\ conversationText' = ""
            /\ notes' = ""
            /\ net' = fetchUploads(Consume(net, r), r.owner)
            /\ UNCHANGED <<error, isSubmitting, lastListed>>
       ELSE /\ error' = uploadImageMessage(r)
            /\ isSubmitting' = submittingAfterFailure
            /\ net' = Consume(net, r)
            /\ UNCHANGED <<files, formVars, urlVars, lastListed>>
    /\ UNCHANGED <<activeTab, uploads, store, picked>>

refreshUploads_ClearOnFailure(r) == IF r.status = "ok" THEN r.data ELSE <<>>

\* refresh: setUploads(data) after `await fetchUploads()`, nothing on a throw
refreshUploads(r) == IF r.status = "ok" THEN r.data ELSE uploads

\* refresh: catch (err) { setError(err.message) }
refreshError(r) == IF r.status = "ok" THEN error ELSE fetchUploadsMessage(r)

tabAfterRefresh_OnlyOnSuccess(r) == IF r.status = "ok" THEN "recent" ELSE activeTab

\* handleSubmit after `await refresh()`: refresh catches what it throws, so
\* setActiveTab("recent") always runs
tabAfterRefresh(r) == "recent"

\* refresh() after `await fetchUploads()`; for the refresh handleSubmit
\* awaits, the rest of handleSubmit follows in the same turn
refreshSettled(r) ==
    /\ r \in InFlight /\ r.kind = "list" /\ r.status # "pending"
    /\ uploads' = refreshUploads(r)
    /\ error' = refreshError(r)
    /\ net' = Consume(net, r)
    /\ IF r.owner = "submit"
       THEN /\ activeTab' = tabAfterRefresh(r)
            /\ isSubmitting' = FALSE
            /\ lastListed' = IF r.status = "ok" THEN Listed(r.data) ELSE lastListed
       ELSE UNCHANGED <<activeTab, isSubmitting, lastListed>>
    /\ UNCHANGED <<files, formVars, store, urlVars, picked>>

-----------------------------------------------------------------------------
(* The specification *)

\* After the first render: the mount effect has called refresh(), the
\* preview effect has run on the empty selection.
Init ==
    /\ activeTab = "dashboard"
    /\ files = <<>>
    /\ previews = <<>>
    /\ profileUrl = ""
    /\ profileBio = ""
    /\ conversationText = ""
    /\ notes = ""
    /\ uploads = <<>>
    /\ error = NULL
    /\ isSubmitting = FALSE
    /\ net = fetchUploads(EmptyBag, "mount")
    /\ store = <<>>
    /\ urlCount = 0
    /\ liveUrls = {}
    /\ revokedUrls = {}
    /\ doubleRevoke = FALSE
    /\ picked = <<>>
    /\ lastListed = NoList

\* the URL ids this selection needs are within the model's bound
WithinUrls(input, most) == urlCount + Min(MaxFiles, Len(input.list)) <= most

\* what the backend, the transport and the event loop do
System ==
    \/ \E r \in InFlight : ServerList(r)
    \/ \E r \in InFlight : ServerCreate(r)
    \/ \E r \in InFlight : NetworkFail(r)
    \/ \E r \in InFlight : uploadSettled(r)
    \/ \E r \in InFlight : refreshSettled(r)

\* The client with a user who picks files, changes tabs and submits.
Next ==
    \/ \E input \in FileInputs(MaxPick) :
            WithinUrls(input, MaxUrls) /\ handleFileChange(input)
    \/ \E t \in tabs : setActiveTab(t)
    \/ handleSubmit
    \/ System

\* The client with a user who also types into the four text fields.
FormNext ==
    \/ \E input \in FileInputs(FormMaxPick) :
            WithinUrls(input, FormMaxUrls) /\ handleFileChange(input)
    \/ \E v \in TextValues : setProfileUrl(v)
    \/ \E v \in TextValues : setProfileBio(v)
    \/ \E v \in TextValues : setConversationText(v)
    \/ \E v \in TextValues : setNotes(v)
    \/ \E t \in tabs : setActiveTab(t)
    \/ handleSubmit
    \/ System

Spec == Init /\ [][Next]_vars
FormSpec == Init /\ [][FormNext]_vars

\* Every request is answered or fails, and the event loop runs every
\* continuation whose promise has settled.
FairSpec == Spec /\ WF_vars(System)


-----------------------------------------------------------------------------
(* What the properties below speak about *)

Calls(owner) == {r \in InFlight : r.owner = owner}
Creates == {r \in InFlight : r.kind = "create"}
Outstanding(rs) == IF rs = {} THEN 0 ELSE BagCardinality([r \in rs |-> CopiesIn(r, net)])
SubmitInFlight == Calls("submit") # {}

FormIsEmpty ==
    /\ profileUrl = "" /\ profileBio = ""
    /\ conversationText = "" /\ notes = ""

\* the first min(5, n) entries of a list, in their order
FirstFive(list) == [i \in 1..(IF Len(list) < 5 THEN Len(list) ELSE 5) |-> list[i]]

-----------------------------------------------------------------------------
(* C1: a submit with no file selected shows "Add at least one image" and   *)
(* does nothing else: no request is issued, the submitting flag stays      *)
(* down, and the form fields, the uploads list and the active tab are left *)
(* as they were.                                                           *)
C1_EmptySubmitIsRejectedLocally ==
    [][(handleSubmit /\ Len(files) = 0) =>
          /\ error' = "Add at least one image"
          /\ net' = net
          /\ isSubmitting' = FALSE
          /\ UNCHANGED <<files, formVars, uploads, activeTab>>]_vars

C1_Witness ==
    /\ error = "Add at least one image"
    /\ files = <<>>
    /\ profileBio = "a"
    /\ ~isSubmitting
    /\ Creates = {}

(* C2 as claimed: when the create request fails, the uploads list, the     *)
(* selection, the text fields and the tab are left alone, no re-fetch is   *)
(* issued, and the error shown is the server's text, or "Upload failed"    *)
(* when there is none.                                                     *)
C2_FailedCreateShowsServerTextOrFallback ==
    [][\A r \in InFlight :
          (uploadSettled(r) /\ r.status # "ok") =>
              /\ UNCHANGED <<uploads, files, formVars, activeTab>>
              /\ net' = Consume(net, r)
              /\ error' = IF r.text # "" THEN r.text ELSE "Upload failed"]_vars

(* C2 as amended: the same, with the error shown after a non-2xx answer    *)
(* being the server's text or "Upload failed", and after a network failure *)
(* the message of the error fetch() threw.                                 *)
C2_FailedCreateShowsThrownMessage ==
    [][\A r \in InFlight :
          (uploadSettled(r) /\ r.status # "ok") =>
              /\ UNCHANGED <<uploads, files, formVars, activeTab>>
              /\ net' = Consume(net, r)
              /\ r.status = "error" =>
                    error' = IF r.text # "" THEN r.text ELSE "Upload failed"
              /\ r.status = "neterr" => error' = TransportMessage]_vars

C2_Witness ==
    /\ error = "Upload failed"
    /\ ~isSubmitting
    /\ files # <<>>
    /\ notes = "a"
    /\ activeTab = "chat"
    /\ ~SubmitInFlight

(* C3: when the create request succeeds the selection and the four text    *)
(* fields are cleared and the list is re-fetched, the tab being left alone *)
(* until that re-fetch has finished; when it has, whatever its outcome,    *)
(* the active tab becomes "recent".                                        *)
C3_SuccessClearsRefetchesThenSwitches ==
    [][\A r \in InFlight :
          /\ (uploadSettled(r) /\ r.status = "ok") =>
                /\ files' = <<>>
                /\ FormIsEmpty'
                /\ net' = Issue(Consume(net, r), Request("submit", "list", NoBody))
                /\ activeTab' = activeTab
          /\ (refreshSettled(r) /\ r.owner = "submit") =>
                activeTab' = "recent"]_vars

C3_Witness ==
    /\ activeTab = "recent"
    /\ store # <<>>
    /\ uploads = <<>>
    /\ error = "Failed to load uploads"
    /\ net = EmptyBag
    /\ files = <<>>
    /\ FormIsEmpty
    /\ ~isSubmitting

(* C4: at most one create request is in flight, the submit and the mount   *)
(* refresh each have at most one outstanding call, and while a call of a   *)
(* submit is outstanding the flag is up and the form cannot be submitted.  *)
C4_OneCreateInFlight ==
    /\ Outstanding(Creates) <= 1
    /\ Outstanding(Calls("submit")) <= 1
    /\ Outstanding(Calls("mount")) <= 1
    /\ SubmitInFlight => (isSubmitting /\ ~ENABLED handleSubmit)

C4_Witness ==
    /\ activeTab = "dashboard"
    /\ isSubmitting
    /\ \E r \in Creates : r.status = "pending"
    /\ \E r \in Calls("mount") : r.status = "pending"
    /\ files # <<>>

(* C5: a file selection replaces the selection by the first min(5, n)      *)
(* entries of the n-entry input, in their order, and the selection never   *)
(* holds more than 5 files.                                                *)
C5_SelectionIsFirstFive ==
    /\ [](Len(files) <= 5)
    /\ [][\A input \in FileInputs(MaxPick) :
             handleFileChange(input) =>
                 files' = IF input.isNull THEN <<>> ELSE FirstFive(input.list)]_vars

C5_Witness ==
    /\ Len(picked) > 5
    /\ Len(files) = 5
    /\ \A i \in 1..5 : files[i] = picked[i]
    /\ urlCount > 5

(* C6: the live preview URLs are exactly the previews of the selected      *)
(* files, one per file; every other URL ever created has been revoked, and *)
(* none was revoked while not live.                                        *)
C6_LivePreviewsMatchSelection ==
    /\ Cardinality(liveUrls) = Len(files)
    /\ Len(previews) = Len(files)
    /\ liveUrls = Range(previews)
    /\ liveUrls \cup revokedUrls = 1..urlCount
    /\ liveUrls \cap revokedUrls = {}
    /\ ~doubleRevoke

C6_Witness ==
    /\ store # <<>>
    /\ Len(files) = 2
    /\ Cardinality(revokedUrls) >= 3
    /\ Cardinality(liveUrls) = 2

(* C7: a refresh whose request succeeded replaces the uploads list by the  *)
(* fetched list; one whose request failed sets the error and leaves the    *)
(* uploads list as it was.                                                 *)
C7_FailedRefreshKeepsList ==
    [][\A r \in InFlight :
          refreshSettled(r) =>
              IF r.status = "ok"
              THEN uploads' = r.data
              ELSE /\ uploads' = uploads
                   /\ error' \in {"Failed to load uploads", TransportMessage}]_vars

C7_Witness ==
    /\ uploads # <<>>
    /\ error = "Failed to load uploads"
    /\ net = EmptyBag
    /\ ~isSubmitting

(* C8 as claimed, for a submit: when a submit ends with its create and its *)
(* re-fetch both successful, no error is displayed any more.               *)
C8_SuccessLeavesNoError ==
    [][\A r \in InFlight :
          (refreshSettled(r) /\ r.owner = "submit" /\ r.status = "ok") =>
              error' = NULL]_vars

(* C9 as claimed: once a submit has ended with a successful create and a   *)
(* successful re-fetch, the uploads list is the list that re-fetch         *)
(* returned.                                                               *)
C9_ListIsTheRefetchedList ==
    lastListed.valid => uploads = lastListed.list

(* C10: the submitting flag is up exactly while a call of a submit is      *)
(* outstanding, and whenever it is up it comes down again.                 *)
C10_SubmittingFlagComesDown ==
    /\ [](isSubmitting <=> SubmitInFlight)
    /\ isSubmitting ~> ~isSubmitting

C10_Witness ==
    /\ ~isSubmitting
    /\ error = "Internal Server Error"
    /\ net = EmptyBag
    /\ files # <<>>

=============================================================================
